---------------------------- MODULE Spec2Model ----------------------------
(***************************************************************************)
(* Model of the generate-and-publish server (src/server.py).               *)
(*                                                                         *)
(* Text is a sequence of one-character strings.  File contents are         *)
(* sequences of string tokens (characters, README lines, or decoded bytes  *)
(* written as their decimal numeral).  The remote host is the map `repos`. *)
(* Every worker process runs handle_request sequentially; the steps of a   *)
(* worker are cut at the blocking outbound calls.                          *)
(***************************************************************************)
EXTENDS Integers, Sequences, FiniteSets, TLC

(***************************************************************************)
(* Bounds of the model.                                                    *)
(***************************************************************************)
MaxRequests == 2
MaxChunks == 3

(***************************************************************************)
(* Text helpers (Python str methods).                                      *)
(***************************************************************************)
IsSpace(c) == c \in {" ", "\n"}

RECURSIVE LStrip(_)
LStrip(s) == IF s # <<>> /\ IsSpace(Head(s)) THEN LStrip(Tail(s)) ELSE s

RECURSIVE RStrip(_)
RStrip(s) ==
    IF s # <<>> /\ IsSpace(s[Len(s)]) THEN RStrip(SubSeq(s, 1, Len(s) - 1)) ELSE s

\* str.strip()
Strip(s) == RStrip(LStrip(s))

StartsWith(s, p) == Len(s) >= Len(p) /\ SubSeq(s, 1, Len(p)) = p

\* str.replace(old, new) for a non-empty old: leftmost, non-overlapping
RECURSIVE Replace(_, _, _)
Replace(s, old, new) ==
    IF s = <<>> THEN <<>>
    ELSE IF StartsWith(s, old)
         THEN new \o Replace(SubSeq(s, Len(old) + 1, Len(s)), old, new)
         ELSE <<Head(s)>> \o Replace(Tail(s), old, new)

LowerChar(c) == IF c = "A" THEN "a" ELSE IF c = "B" THEN "b" ELSE c

\* str.lower()
Lower(s) == [i \in 1..Len(s) |-> LowerChar(s[i])]

RECURSIVE RStripSlash(_)
RStripSlash(s) ==
    IF s # <<>> /\ s[Len(s)] = "/" THEN RStripSlash(SubSeq(s, 1, Len(s) - 1)) ELSE s

\* s.split('/')[-1]
RECURSIVE LastSegment(_)
LastSegment(s) ==
    IF \E i \in 1..Len(s) : s[i] = "/"
    THEN LastSegment(Tail(s))
    ELSE s

IsPrefix(a, b) == Len(a) <= Len(b) /\ SubSeq(b, 1, Len(a)) = a

RECURSIVE Flatten(_)
Flatten(ss) == IF ss = <<>> THEN <<>> ELSE Head(ss) \o Flatten(Tail(ss))

(***************************************************************************)
(* Output sanitization of the generator (server.py 164-167).               *)
(***************************************************************************)
\* The backquote character (written as an apostrophe: the lexer of TLA+ accepts
\* no backquote inside a string).
Tick == "'"
Fence == <<Tick, Tick, Tick>>
FenceHtml == Fence \o <<"h", "t", "m", "l">>

Sanitize_NoSecondStrip(content) ==
    Replace(Replace(Strip(content), FenceHtml, <<>>), Fence, <<>>)

Sanitize(content) ==
    Strip(Replace(Replace(Strip(content), FenceHtml, <<>>), Fence, <<>>))

\* A model answer wrapped in a fenced code block, with or without the tag.
Wrap(text, tagged) ==
    (IF tagged THEN FenceHtml ELSE Fence) \o <<"\n">> \o text \o <<"\n">> \o Fence

(***************************************************************************)
(* Base64 (the b64decode of server.py 41, and the encoding a well-formed   *)
(* data URI carries).  A character of a data URI is a number: 0..63 are    *)
(* the letters of the base64 alphabet by value, PadChar is "=", MarkChar   *)
(* stands for the substring "base64," and JunkChar for any other           *)
(* character.                                                              *)
(***************************************************************************)
PadChar == 64
MarkChar == 65
JunkChar == 66

\* binascii.a2b_base64, non-strict: characters outside the alphabet are dropped,
\* a complete pad sequence ends the input, an unfinished quad is an error.
\* Returns [ok |-> BOOLEAN, bytes |-> Seq(0..255)].
RECURSIVE A2B(_, _, _, _, _)
A2B(s, quad, left, pads, out) ==
    IF s = <<>> THEN [ok |-> quad = 0, bytes |-> out]
    ELSE LET c == Head(s) IN
         IF c = PadChar
         THEN IF quad >= 2 /\ quad + pads + 1 >= 4
              THEN [ok |-> TRUE, bytes |-> out]
              ELSE A2B(Tail(s), quad, left, IF quad >= 2 THEN pads + 1 ELSE pads, out)
         ELSE IF c > 63 THEN A2B(Tail(s), quad, left, pads, out)
         ELSE IF quad = 0 THEN A2B(Tail(s), 1, c, 0, out)
         ELSE IF quad = 1
              THEN A2B(Tail(s), 2, c % 16, 0, Append(out, left * 4 + c \div 16))
         ELSE IF quad = 2
              THEN A2B(Tail(s), 3, c % 4, 0, Append(out, left * 16 + c \div 4))
         ELSE A2B(Tail(s), 0, 0, 0, Append(out, left * 64 + c))

B64Decode(s) == A2B(s, 0, 0, 0, <<>>)

\* base64.b64encode
RECURSIVE B64Encode(_)
B64Encode(b) ==
    IF b = <<>> THEN <<>>
    ELSE IF Len(b) = 1
         THEN <<b[1] \div 4, (b[1] % 4) * 16, PadChar, PadChar>>
    ELSE IF Len(b) = 2
         THEN <<b[1] \div 4, (b[1] % 4) * 16 + b[2] \div 16, (b[2] % 16) * 4, PadChar>>
    ELSE <<b[1] \div 4, (b[1] % 4) * 16 + b[2] \div 16,
           (b[2] % 16) * 4 + b[3] \div 64, b[3] % 64>>
         \o B64Encode(SubSeq(b, 4, Len(b)))

\* data_uri.split("base64,")[1]: what stands between the first and the second marker
RECURSIVE UpToMark(_)
UpToMark(s) ==
    IF s = <<>> \/ Head(s) = MarkChar THEN <<>> ELSE <<Head(s)>> \o UpToMark(Tail(s))

RECURSIVE AfterMark(_)
AfterMark(s) ==
    IF s = <<>> THEN <<>>
    ELSE IF Head(s) = MarkChar THEN Tail(s) ELSE AfterMark(Tail(s))

HasMark(s) == \E i \in 1..Len(s) : s[i] = MarkChar

SplitPayload(data_uri) == UpToMark(AfterMark(data_uri))

\* the bytes of a file as content tokens
BytesContent(b) == [i \in 1..Len(b) |-> ToString(b[i])]

(***************************************************************************)
(* Request values.  None is Python's None (a missing JSON field read with  *)
(* data.get).  An attachment entry is a JSON value: obj says whether it is *)
(* an object, keys which of "name" and "url" it has.                       *)
(***************************************************************************)
None == "<None>"

Attachment(name, url) == [obj |-> TRUE, keys |-> {"name", "url"}, name |-> name, url |-> url]
NoNameEntry(url) == [obj |-> TRUE, keys |-> {"url"}, name |-> None, url |-> url]
NoUrlEntry(name) == [obj |-> TRUE, keys |-> {"name"}, name |-> name, url |-> <<>>]
NotAnObject == [obj |-> FALSE, keys |-> {}, name |-> None, url |-> <<>>]

\* "data:...;base64," followed by the encoding of the bytes
DataUri(bytes) == <<JunkChar, MarkChar>> \o B64Encode(bytes)

NoFiles == [n \in {} |-> <<>>]

\* open(path, "w"/"wb") followed by write(content)
WriteFile(files, name, content) == (name :> content) @@ files

\* open(path, "a") followed by write(content)
AppendFile(files, name, content) ==
    (name :> ((IF name \in DOMAIN files THEN files[name] ELSE <<>>) \o content)) @@ files

(***************************************************************************)
(* Paths (the os.path.join and open of server.py 36, 40).  A path is the    *)
(* sequence of its segments; an absolute path starts with the empty        *)
(* segment, as "/tmp/d".split("/") does.                                   *)
(***************************************************************************)
\* the staging directory tempfile.TemporaryDirectory() made
TmpDir == <<"", "tmp", "d">>

\* name.split("/") for the attachment names of the model; a name without a
\* slash is its own only segment
Segments(name) ==
    IF name = "../up.txt" THEN <<"..", "up.txt">>
    ELSE IF name = "/abs.txt" THEN <<"", "abs.txt">>
    ELSE <<name>>

IsAbs(segs) == segs # <<>> /\ Head(segs) = ""

\* os.path.join(a, b): an absolute b discards a
JoinPath(a, b) == IF IsAbs(b) THEN b ELSE a \o b

\* the file the operating system opens: ".." steps up, and stays at the root
RECURSIVE Resolve(_, _)
Resolve(done, rest) ==
    IF rest = <<>> THEN done
    ELSE IF Head(rest) = ".."
         THEN Resolve(IF Len(done) > 1 THEN SubSeq(done, 1, Len(done) - 1) ELSE done,
                      Tail(rest))
         ELSE Resolve(Append(done, Head(rest)), Tail(rest))

\* the path lies under the directory
Under(dir, path) == Len(path) > Len(dir) /\ SubSeq(path, 1, Len(dir)) = dir

\* where open(os.path.join(tmpdir, name)) of handle_attachments writes
TargetOf(name) == Resolve(<<>>, JoinPath(TmpDir, Segments(name)))

(***************************************************************************)
(* handle_attachments (server.py 31-45).  The state of the loop is         *)
(* [raised, files, outside, attachment_files]; raised is the exception     *)
(* that leaves the function (the AttributeError of attach.get in the       *)
(* handler, for an entry that is no object); files are the files of the    *)
(* staging directory, outside the paths written that are not under it.     *)
(***************************************************************************)
\* attach[key] raises for a value that is no object or has no such key
Subscriptable(attach, key) == attach.obj /\ key \in attach.keys

\* one iteration of the loop body, lines 35-44
AttachOne(acc, attach) ==
    IF ~Subscriptable(attach, "name") \/ ~Subscriptable(attach, "url")
    THEN \* except branch: attach.get('name') needs an object
         [acc EXCEPT !.raised = ~attach.obj]
    ELSE IF ~HasMark(attach.url) THEN acc
    ELSE IF ~Under(TmpDir, TargetOf(attach.name))
    THEN IF ~B64Decode(SplitPayload(attach.url)).ok
         THEN [acc EXCEPT !.outside = @ \cup {TargetOf(attach.name)}]
         ELSE [acc EXCEPT !.outside = @ \cup {TargetOf(attach.name)},
                          !.attachment_files = Append(@, attach.name)]
    ELSE LET opened == WriteFile(acc.files, attach.name, <<>>)
             dec == B64Decode(SplitPayload(attach.url))
         IN  IF ~dec.ok
             THEN [acc EXCEPT !.files = opened]
             ELSE [acc EXCEPT !.files = WriteFile(opened, attach.name, BytesContent(dec.bytes)),
                              !.attachment_files = Append(@, attach.name)]

RECURSIVE AttachLoop(_, _)
AttachLoop(acc, attachments) ==
    IF attachments = <<>> \/ acc.raised THEN acc
    ELSE AttachLoop(AttachOne(acc, Head(attachments)), Tail(attachments))

handle_attachments(files, attachments) ==
    AttachLoop([raised |-> FALSE, files |-> files, outside |-> {},
                attachment_files |-> <<>>], attachments)

(***************************************************************************)
(* README and LICENSE texts (server.py 47-117), one token per heading or   *)
(* interpolated value.                                                     *)
(***************************************************************************)
Login == "user"

generate_readme_content(task, brief, checks, attachment_files) ==
    <<"# ">> \o task \o <<"## Summary", brief, "## Setup">> \o task \o task
    \o <<"## Usage">>
    \o (IF attachment_files # <<>>
        THEN <<"## Included Files">> \o attachment_files ELSE <<>>)
    \o (IF checks # <<>> THEN <<"## Evaluation Criteria">> \o checks ELSE <<>>)
    \o <<"## Code Explanation", "## License">>

generate_license_content(github_user_login) ==
    <<"MIT License", "Copyright (c) 2025", github_user_login>>

\* the section appended to README.md in a round > 1 (server.py 343-348)
RoundSection(round_num, brief, checks) ==
    <<"---", "## Round", ToString(round_num), "Update", "**Brief**", brief>>
    \o (IF checks # <<>> THEN <<"**New Evaluation Criteria**:">> \o checks ELSE <<>>)

\* the names generate_code_with_llm reads for the prompt (server.py 126-129):
\* attach['name'] raises for an entry without a name
PromptNamesRaise(attachments) ==
    \E i \in 1..Len(attachments) : ~Subscriptable(attachments[i], "name")

(***************************************************************************)
(* Inputs.                                                                 *)
(***************************************************************************)
Workers == {"w1", "w2"}

AllowedSecret == "S"
\* ALLOWED (server.py 28)
ALLOWED == [e \in {"student@example.com"} |-> AllowedSecret]

\* dict.get: None for a key that is not in the dict
AllowedGet(email) == IF email \in DOMAIN ALLOWED THEN ALLOWED[email] ELSE None

Emails == {"student@example.com", "mallory@example.com"}
Secrets == {AllowedSecret, "wrong", None}
Task == <<"A", " ">>
Nonce == <<"1">>
Rounds == {1, 2}
Brief == "brief"

\* f"{task}-{nonce}".replace(" ", "-").lower()  (server.py 232)
RepoName(task, nonce) == Lower(Replace(task \o <<"-">> \o nonce, <<" ">>, <<"-">>))

UrlOf(name) == <<"g", "/", "u", "/">> \o name
\* the empty URL stands for a missing or empty repo_url (both are falsy)
RepoUrls == {<<>>, UrlOf(RepoName(Task, Nonce)) \o <<"/">>, UrlOf(<<"z">>)}

\* prev_repo_url.rstrip('/').split('/')[-1]  (server.py 311)
RepoNameOfUrl(url) == LastSegment(RStripSlash(url))

GoodBytes == <<77, 97>>
Good == Attachment("a.png", DataUri(GoodBytes))
Undecodable == Attachment("bad.bin", <<JunkChar, MarkChar, 19>>)
NoMarker == Attachment("c.txt", <<JunkChar>>)
Climbing == Attachment("../up.txt", DataUri(GoodBytes))
Absolute == Attachment("/abs.txt", DataUri(GoodBytes))

\* the attachments and checks of a request body
Bodies ==
    { [attachments |-> <<>>, checks |-> <<>>],
      [attachments |-> <<Attachment("README.md", DataUri(GoodBytes))>>, checks |-> <<>>],
      [attachments |-> <<NoNameEntry(DataUri(GoodBytes)), Good>>, checks |-> <<>>],
      [attachments |-> <<Undecodable, Good>>, checks |-> <<"check">>],
      [attachments |-> <<NoMarker, NoUrlEntry("d.txt")>>, checks |-> <<>>],
      [attachments |-> <<NotAnObject, Good>>, checks |-> <<>>],
      [attachments |-> <<Climbing, Absolute>>, checks |-> <<>>] }

Page == <<"p">>
\* what the model service answers: no answer (the call raises) or a text: a
\* page, a page in a fenced block, or a fenced block with nothing in it
LLMOutcomes ==
    {[ok |-> FALSE, text |-> <<>>]}
    \cup {[ok |-> TRUE, text |-> t] : t \in {Page, Wrap(Page, TRUE), Wrap(<<>>, TRUE)}}

Chunks == {<<Tick>>, Fence, FenceHtml, <<"h">>, <<"p">>, <<" ">>, <<"\n">>}
TextInputs == {Flatten(cs) : cs \in UNION {[1..k -> Chunks] : k \in 0..MaxChunks}}

\* post_with_retry(url, payload, max_attempts=5)  (server.py 186)
max_attempts == 5

(***************************************************************************)
(* State.                                                                  *)
(***************************************************************************)
VARIABLES
    pc,            \* where each worker stands in handle_request
    data,          \* the request body: the fields the last step read or that
                   \* the handler has yet to read
    nreq,          \* requests received so far
    tmpdir,        \* the files of the worker's staging directory
    tmpdirExists,  \* whether the staging directory exists
    base,          \* the head the worker's clone was taken at
    resp,          \* the response of the request: [status, detail]
    repos,         \* the remote host: repository name -> [head, files]
    outside,       \* the paths written on the server that are under no staging directory
    existedAtStart,\* whether the round-1 repository existed when the request came in
    afterFirst,    \* whether a round-1 request for the project had returned by then
    genCalls,      \* calls of generate_code_with_llm during the request
    llmCalls,      \* calls of the model service during the request
    hostCalls,     \* calls of the remote host during the request
    posts,         \* POSTs made to the callback
    oks,           \* POSTs the callback answered with 200
    okAt,          \* the number of the first POST answered with 200, or 0
    slept,         \* total time post_with_retry has slept
    success,       \* what post_with_retry returned: "none", "True", "False"
    checked,       \* how the existence check ended: "none", "found", "absent", "error"
    git,           \* the git commands of the request: [pushes, clones, failed, pushed]
    site,          \* what the site-publication step found, until the notification
    modelText,     \* sanitization run: the model's answer
    sanitized      \* sanitization run: <<of the answer, fenced, fenced with tag>>

perWorker == <<pc, data, tmpdir, tmpdirExists, base, resp, existedAtStart, afterFirst>>
counters == <<genCalls, llmCalls, hostCalls>>
notifier == <<posts, oks, okAt, slept, success>>
trail == <<checked, git, site>>
sanVars == <<modelText, sanitized>>
vars == <<perWorker, nreq, repos, outside, counters, notifier, trail, sanVars>>

NoSite == [status |-> 0, verified |-> "none", gets |-> 0, firstOk |-> 0, elapsed |-> 0]
NoGit == [pushes |-> 0, clones |-> 0, failed |-> FALSE, pushed |-> FALSE]

NoData ==
    [email |-> None, secret |-> None, round |-> 1, repo_url |-> <<>>,
     attachments |-> <<>>, checks |-> <<>>]

InitPipeline ==
    /\ pc = [w \in Workers |-> "idle"]
    /\ data = [w \in Workers |-> NoData]
    /\ nreq = 0
    /\ tmpdir = [w \in Workers |-> NoFiles]
    /\ tmpdirExists = [w \in Workers |-> FALSE]
    /\ base = [w \in Workers |-> 0]
    /\ resp = [w \in Workers |-> [status |-> 0, detail |-> ""]]
    /\ repos = [n \in {} |-> [head |-> 0, files |-> NoFiles]]
    /\ outside = {}
    /\ existedAtStart = [w \in Workers |-> FALSE]
    /\ afterFirst = [w \in Workers |-> FALSE]
    /\ genCalls = [w \in Workers |-> 0]
    /\ llmCalls = [w \in Workers |-> 0]
    /\ hostCalls = [w \in Workers |-> 0]
    /\ posts = [w \in Workers |-> 0]
    /\ oks = [w \in Workers |-> 0]
    /\ okAt = [w \in Workers |-> 0]
    /\ slept = [w \in Workers |-> 0]
    /\ success = [w \in Workers |-> "none"]
    /\ checked = [w \in Workers |-> "none"]
    /\ git = [w \in Workers |-> NoGit]
    /\ site = [w \in Workers |-> NoSite]

Init == InitPipeline /\ modelText = <<>> /\ sanitized = <<>>

(***************************************************************************)
(* Leaving handle_request.                                                 *)
(***************************************************************************)
HTTPException(status, detail) == [http |-> TRUE, status |-> status, detail |-> detail]
GithubException(status, detail) == [http |-> FALSE, status |-> status, detail |-> detail]
OtherException(detail) == [http |-> FALSE, status |-> 0, detail |-> detail]

\* except Exception (server.py 389-393): an HTTPException keeps its status,
\* anything else becomes a 500
ErrorStatus(e) == IF e.http THEN e.status ELSE 500

RemovedOnExit_SuccessOnly(status) == status = 200

\* with tempfile.TemporaryDirectory() (server.py 210): the block removes the
\* directory when it is left, by a return or by an exception
RemovedOnExit(status) == TRUE

\* the response leaves, and the with-block removes the staging directory
Return(w, status, detail) ==
    /\ pc' = [pc EXCEPT ![w] = "done"]
    /\ resp' = [resp EXCEPT ![w] = [status |-> status, detail |-> detail]]
    /\ tmpdir' = [tmpdir EXCEPT ![w] = IF RemovedOnExit(status) THEN NoFiles ELSE @]
    /\ tmpdirExists' = [tmpdirExists EXCEPT ![w] = ~RemovedOnExit(status)]

Raise_Swallowed(w, e) ==
    /\ pc' = [pc EXCEPT ![w] = "notify"]
    /\ UNCHANGED <<resp, tmpdir, tmpdirExists>>

\* an exception leaves the handler through the except clause (server.py 389-393)
Raise(w, e) == Return(w, ErrorStatus(e), e.detail)

\* the repository the request works on
RepoOf(w) ==
    IF data[w].round = 1 THEN RepoName(Task, Nonce)
    ELSE RepoNameOfUrl(data[w].repo_url)

\* the body once the credentials have been checked
Checked(d) == [d EXCEPT !.email = None, !.secret = None]
\* the body once the attachments and checks have been used
Used(d) == [d EXCEPT !.attachments = <<>>, !.checks = <<>>]

(***************************************************************************)
(* post_with_retry (server.py 186-203), run against the answers the        *)
(* callback gives to attempts 1, 2, ...  The state of the loop is          *)
(* [attempt, delay, slept, oks, okAt, result]: oks counts the attempts the  *)
(* callback answered 200, okAt is the number of the first of them.         *)
(***************************************************************************)
\* an attempt is answered 200, answered with another status, or raises a
\* RequestException
PostOutcomes == {"200", "other", "exception"}

\* what the callback does on attempts 1, 2, ...; what follows the first 200 is
\* never asked for, and is left out
CallbackRuns ==
    {o \in UNION {[1..k -> PostOutcomes] : k \in 1..max_attempts} :
        /\ \A i \in 1..(Len(o) - 1) : o[i] # "200"
        /\ Len(o) < max_attempts => o[Len(o)] = "200"}

IsSuccess_AnyAnswer(outcome) == outcome # "exception"

\* server.py 192: r.status_code == 200
IsSuccess(outcome) == outcome = "200"

InRange_OneLess(attempt) == attempt < max_attempts - 1

\* for attempt in range(max_attempts)
InRange(attempt) == attempt < max_attempts

\* server.py 200: no sleep after the last attempt
SleepsAfter(attempt) == attempt < max_attempts - 1

NextDelay_Linear(d) == d + 1

\* server.py 202
NextDelay(d) == d * 2

RECURSIVE RetryLoop(_, _)
RetryLoop(st, outcomes) ==
    IF ~InRange(st.attempt) THEN [st EXCEPT !.result = "False"]
    ELSE LET outcome == outcomes[st.attempt + 1]
             posted == [st EXCEPT !.attempt = @ + 1,
                                  !.oks = IF outcome = "200" THEN @ + 1 ELSE @,
                                  !.okAt = IF outcome = "200" /\ @ = 0
                                           THEN st.attempt + 1 ELSE @]
         IN  IF IsSuccess(outcome)
             THEN [posted EXCEPT !.result = "True"]
             ELSE IF SleepsAfter(st.attempt)
                  THEN RetryLoop([posted EXCEPT !.slept = @ + st.delay,
                                                !.delay = NextDelay(@)], outcomes)
                  ELSE RetryLoop(posted, outcomes)

post_with_retry(outcomes) ==
    RetryLoop([attempt |-> 0, delay |-> 1, slept |-> 0, oks |-> 0, okAt |-> 0,
               result |-> "none"], outcomes)

\* the ways post_with_retry can end, over the runs of the callback
NotifierResults == {post_with_retry(outcomes) : outcomes \in CallbackRuns}

(***************************************************************************)
(* handle_request.  A step runs from one call that reads or changes the    *)
(* remote host to the next.                                                *)
(***************************************************************************)
\* a worker shows a round-1 request that was let in, found no repository of its
\* name when it came in, and has returned
FirstReturned ==
    \E v \in Workers :
        /\ pc[v] = "done" /\ data[v].round = 1
        /\ resp[v].status # 403 /\ ~existedAtStart[v]

\* server.py 215
Authenticated(email, secret) == ~(AllowedGet(email) # secret)

\* the worker processes are interchangeable: a request goes to the first one
\* that is not handling a request
FirstFree(w) == w = "w1" \/ pc["w1"] \notin {"idle", "done"}

\* server.py 207-225: the request comes in, the staging directory is made, the
\* credentials are checked; the other fields are read once the credentials
\* have passed
ReceiveWith(w, limit, rounds) ==
    /\ pc[w] \in {"idle", "done"}
    /\ FirstFree(w)
    /\ nreq < limit
    /\ nreq' = nreq + 1
    /\ \E email \in Emails, secret \in Secrets :
          IF Authenticated(email, secret)
          THEN \E round \in rounds, url \in RepoUrls :
               /\ round = 1 => url = <<>>
               /\ data' = [data EXCEPT ![w] =
                      [NoData EXCEPT !.email = email, !.secret = secret,
                                     !.round = round, !.repo_url = url]]
               /\ existedAtStart' = [existedAtStart EXCEPT ![w] =
                      round = 1 /\ RepoName(Task, Nonce) \in DOMAIN repos]
               /\ afterFirst' = [afterFirst EXCEPT ![w] = round = 1 /\ FirstReturned]
               /\ pc' = [pc EXCEPT ![w] = IF round = 1 THEN "check" ELSE "update"]
               /\ resp' = [resp EXCEPT ![w] = [status |-> 0, detail |-> ""]]
               /\ tmpdir' = [tmpdir EXCEPT ![w] = NoFiles]
               /\ tmpdirExists' = [tmpdirExists EXCEPT ![w] = TRUE]
          ELSE /\ data' = [data EXCEPT ![w] =
                      [NoData EXCEPT !.email = email, !.secret = secret]]
               /\ existedAtStart' = [existedAtStart EXCEPT ![w] = FALSE]
               /\ afterFirst' = [afterFirst EXCEPT ![w] = FALSE]
               /\ Raise(w, HTTPException(403, "Secret mismatch"))
    /\ base' = [base EXCEPT ![w] = 0]
    /\ genCalls' = [genCalls EXCEPT ![w] = 0]
    /\ llmCalls' = [llmCalls EXCEPT ![w] = 0]
    /\ hostCalls' = [hostCalls EXCEPT ![w] = 0]
    /\ posts' = [posts EXCEPT ![w] = 0]
    /\ oks' = [oks EXCEPT ![w] = 0]
    /\ okAt' = [okAt EXCEPT ![w] = 0]
    /\ slept' = [slept EXCEPT ![w] = 0]
    /\ success' = [success EXCEPT ![w] = "none"]
    /\ checked' = [checked EXCEPT ![w] = "none"]
    /\ git' = [git EXCEPT ![w] = NoGit]
    /\ UNCHANGED <<repos, outside, site, sanVars>>

Receive(w) == ReceiveWith(w, MaxRequests, Rounds)

\* the first request of a server, for a new project
ReceiveFirst(w) == ReceiveWith(w, 1, {1})

RepoFound_Never(name) == FALSE

\* gh.get_repo answers with the repository (server.py 237, 316)
RepoFound(name) == name \in DOMAIN repos

\* attachments, generation and the files written, on the staging directory
\* `files`: server.py 243-259 in round 1, 325-348 in a later round.
\* [exc, raised, files, outside, gen, llm]
Stage(files, round_num, body, llm) ==
    LET att == handle_attachments(files, body.attachments)
        html_content == Sanitize(llm.text)
        written ==
            IF round_num = 1
            THEN WriteFile(WriteFile(WriteFile(att.files,
                     "index.html", html_content),
                     "README.md", generate_readme_content(Task, Brief, body.checks,
                                                          att.attachment_files)),
                     "LICENSE", generate_license_content(Login))
            ELSE AppendFile(WriteFile(att.files, "index.html", html_content),
                     "README.md", RoundSection(round_num, Brief, body.checks))
    IN  IF att.raised
        THEN [exc |-> OtherException("AttributeError"), raised |-> TRUE,
              files |-> att.files, outside |-> att.outside, gen |-> 0, llm |-> 0]
        ELSE IF PromptNamesRaise(body.attachments)
        THEN [exc |-> OtherException("KeyError"), raised |-> TRUE,
              files |-> att.files, outside |-> att.outside, gen |-> 1, llm |-> 0]
        ELSE IF ~llm.ok
        THEN [exc |-> HTTPException(500, "Failed to generate code"), raised |-> TRUE,
              files |-> att.files, outside |-> att.outside, gen |-> 1, llm |-> 1]
        ELSE [exc |-> OtherException(""), raised |-> FALSE,
              files |-> written, outside |-> att.outside, gen |-> 1, llm |-> 1]

\* how the call of gh.get_repo ends (server.py 236-241): the host answers, or
\* the call raises a GithubException of a status that is not the host's answer
\* (401: bad credentials), or the connection fails with another exception
CheckFailures == {"none", "GithubException", "ConnectionError"}

Reraised_Never(status) == FALSE

\* server.py 240: if e.status != 404: raise e
Reraised(status) == status # 404

\* server.py 227-259: the existence check, then the staging
CheckAndStage(w) ==
    /\ pc[w] = "check"
    /\ hostCalls' = [hostCalls EXCEPT ![w] = @ + 1]
    /\ \E failure \in CheckFailures :
          IF failure = "ConnectionError"
          THEN /\ Raise(w, OtherException("host error"))
               /\ checked' = [checked EXCEPT ![w] = "error"]
               /\ data' = [data EXCEPT ![w] = Checked(@)]
               /\ UNCHANGED <<genCalls, llmCalls, outside>>
          ELSE IF failure = "none" /\ RepoFound(RepoOf(w))
          THEN /\ Raise(w, HTTPException(409, "already exists"))
               /\ checked' = [checked EXCEPT ![w] = "found"]
               /\ data' = [data EXCEPT ![w] = Checked(@)]
               /\ UNCHANGED <<genCalls, llmCalls, outside>>
          ELSE IF Reraised(IF failure = "none" THEN 404 ELSE 401)
          THEN /\ Raise(w, GithubException(401, "host error"))
               /\ checked' = [checked EXCEPT ![w] = "error"]
               /\ data' = [data EXCEPT ![w] = Checked(@)]
               /\ UNCHANGED <<genCalls, llmCalls, outside>>
          ELSE \E body \in Bodies, llm \in LLMOutcomes :
               LET st == Stage(tmpdir[w], 1, body, llm) IN
               /\ checked' = [checked EXCEPT ![w] =
                      IF failure = "none" THEN "absent" ELSE "error"]
               /\ data' = [data EXCEPT ![w] =
                      [Checked(@) EXCEPT !.attachments = body.attachments,
                                         !.checks = body.checks]]
               /\ genCalls' = [genCalls EXCEPT ![w] = @ + st.gen]
               /\ llmCalls' = [llmCalls EXCEPT ![w] = @ + st.llm]
               /\ outside' = outside \cup st.outside
               /\ IF st.raised THEN Raise(w, st.exc)
                  ELSE /\ tmpdir' = [tmpdir EXCEPT ![w] = st.files]
                       /\ pc' = [pc EXCEPT ![w] = "create"]
                       /\ UNCHANGED <<resp, tmpdirExists>>
    /\ UNCHANGED <<nreq, base, existedAtStart, afterFirst, repos, git, site, notifier, sanVars>>

\* server.py 261-263: user.create_repo; the host refuses a name that is taken
CreateRepo(w) ==
    /\ pc[w] = "create"
    /\ hostCalls' = [hostCalls EXCEPT ![w] = @ + 1]
    /\ data' = [data EXCEPT ![w] = Used(@)]
    /\ \E answered \in BOOLEAN :
          IF ~answered
          THEN Raise(w, GithubException(502, "create error")) /\ UNCHANGED repos
          ELSE IF RepoOf(w) \in DOMAIN repos
          THEN Raise(w, GithubException(422, "name already exists")) /\ UNCHANGED repos
          ELSE /\ repos' = (RepoOf(w) :> [head |-> 0, files |-> NoFiles]) @@ repos
               /\ pc' = [pc EXCEPT ![w] = "push"]
               /\ UNCHANGED <<resp, tmpdir, tmpdirExists>>
    /\ UNCHANGED <<nreq, base, existedAtStart, afterFirst, outside, genCalls, llmCalls,
                   checked, git, site, notifier, sanVars>>

\* git push: the remote takes the commit only on top of the head it was made on
PushAccepted(name, from) == repos[name].head = from

\* how a run of the git commands ends: all succeed, a local command (init, add,
\* commit) fails, or the push is reached and fails on its way
GitRuns == {"ok", "local", "push"}

GitRaises_Unchecked(ok) == FALSE

\* subprocess.run(..., check=True): a command that fails raises
\* CalledProcessError
GitRaises(ok) == ~ok

Kept_Deleted(r, name) == [n \in DOMAIN r \ {name} |-> r[n]]

\* the remote after a request has failed (server.py 389-393): the handler
\* makes no call that removes what the request created
Kept(r, name) == r

\* server.py 265-275: init, add, commit, push of the staged files
PushInitial(w) ==
    /\ pc[w] = "push"
    /\ \E run \in GitRuns :
          LET ok == run = "ok" /\ PushAccepted(RepoOf(w), 0)
              g == [git[w] EXCEPT !.pushes = IF run = "local" THEN @ ELSE @ + 1,
                                  !.failed = ~ok, !.pushed = ok]
          IN  /\ git' = [git EXCEPT ![w] = g]
              /\ IF GitRaises(ok)
                 THEN /\ Raise(w, OtherException("CalledProcessError"))
                      /\ repos' = Kept(repos, RepoOf(w))
                 ELSE /\ repos' = IF ok
                                  THEN [repos EXCEPT ![RepoOf(w)] =
                                           [head |-> 1, files |-> tmpdir[w]]]
                                  ELSE repos
                      /\ pc' = [pc EXCEPT ![w] = "pages"]
                      /\ UNCHANGED <<resp, tmpdir, tmpdirExists>>
    /\ UNCHANGED <<data, nreq, base, existedAtStart, afterFirst, outside, counters,
                   checked, site, notifier, sanVars>>

(***************************************************************************)
(* verify_pages_active (server.py 172-184), run against what the site      *)
(* answers to GETs 1, 2, ...  A run of the site is [firstOk, kind, rt]:    *)
(* firstOk is the number of the first GET answered 200 (0: none is), kind  *)
(* is how the other GETs end, rt is the time a GET takes.  The state of    *)
(* the loop is [attempt, took, result, raised].                            *)
(***************************************************************************)
\* verify_pages_active(pages_url, max_attempts=20, delay=5)  (server.py 302)
VerifyAttempts == 20
VerifyDelay == 5
\* requests.get(pages_url, timeout=10)  (server.py 177)
GetTimeout == 10
\* if elapsed < 540  (server.py 301)
VerifyDeadline == 540
\* the budget of a request (server.py 363)
Budget == 600
\* the time the budget is to leave for the notification (server.py 301)
Reserved == 60

SiteRun(firstOk, kind, rt) == [firstOk |-> firstOk, kind |-> kind, rt |-> rt]

\* how GET number i of the run ends
GetOutcome(run, i) ==
    IF i = run.firstOk THEN "200"
    ELSE IF run.kind = "mixed" THEN (IF i % 2 = 1 THEN "exception" ELSE "other")
    ELSE run.kind

Caught_Never(outcome) == FALSE

\* server.py 181: except requests.RequestException
Caught(outcome) == outcome = "exception"

RECURSIVE VerifyLoop(_, _, _, _)
VerifyLoop(st, run, attempts, delay) ==
    IF ~(st.attempt < attempts) THEN [st EXCEPT !.result = "False"]
    ELSE LET outcome == GetOutcome(run, st.attempt + 1)
             got == [st EXCEPT !.attempt = @ + 1, !.took = @ + run.rt]
         IN  IF outcome = "200" THEN [got EXCEPT !.result = "True"]
             ELSE IF outcome = "exception" /\ ~Caught(outcome)
                  THEN [got EXCEPT !.raised = TRUE]
                  ELSE VerifyLoop([got EXCEPT !.took = @ + delay], run, attempts, delay)

verify_pages_active(run, attempts, delay) ==
    VerifyLoop([attempt |-> 0, took |-> 0, result |-> "none", raised |-> FALSE],
               run, attempts, delay)

\* the statuses the site-publication request is answered with
PagesStatuses == {201, 409, 404, 500}
\* the time since start_time when line 300 reads the clock
VerifyStarts == {0, VerifyDeadline - 1, VerifyDeadline}
SiteRuns ==
    {SiteRun(k, kind, rt) : k \in 0..VerifyAttempts,
                            kind \in {"other", "exception", "mixed"},
                            rt \in {0, GetTimeout}}

PagesRaises_ForStatus(status) == status \notin {201, 409}

\* server.py 290-293: both branches only print
PagesRaises(status) == FALSE

\* server.py 301
WithinDeadline(elapsed) == elapsed < VerifyDeadline

\* server.py 277-302: the site-publication request (a status, or 0 when the
\* call or the get_branch after it raises), the head commit and the
\* best-effort verification; `elapsed` of the record is the time since
\* start_time when the verification is over
PublishSiteWith(w, statuses, starts, runs) ==
    /\ pc[w] = "pages"
    /\ hostCalls' = [hostCalls EXCEPT ![w] = @ + 1]
    /\ \E status \in statuses \cup {0} :
          IF status = 0
          THEN Raise(w, OtherException("RequestException")) /\ UNCHANGED site
          ELSE IF PagesRaises(status)
          THEN Raise(w, OtherException("HTTPError")) /\ UNCHANGED site
          ELSE \E elapsed \in starts :
               IF ~WithinDeadline(elapsed)
               THEN /\ site' = [site EXCEPT ![w] =
                           [NoSite EXCEPT !.status = status, !.verified = "skipped",
                                          !.elapsed = elapsed]]
                    /\ pc' = [pc EXCEPT ![w] = "notify"]
                    /\ UNCHANGED <<resp, tmpdir, tmpdirExists>>
               ELSE \E run \in runs :
                    LET v == verify_pages_active(run, VerifyAttempts, VerifyDelay) IN
                    IF v.raised
                    THEN Raise(w, OtherException("verify raised")) /\ UNCHANGED site
                    ELSE /\ site' = [site EXCEPT ![w] =
                                [status |-> status, verified |-> v.result,
                                 gets |-> v.attempt, firstOk |-> run.firstOk,
                                 elapsed |-> elapsed + v.took]]
                         /\ pc' = [pc EXCEPT ![w] = "notify"]
                         /\ UNCHANGED <<resp, tmpdir, tmpdirExists>>
    /\ UNCHANGED <<data, nreq, base, existedAtStart, afterFirst, repos, outside, genCalls,
                   llmCalls, checked, git, notifier, sanVars>>

\* the site-publication step against a host that answers 404 and a site that
\* never serves the page, reached at once or when the deadline has passed
PublishSite(w) ==
    PublishSiteWith(w, {404}, {0, VerifyDeadline}, {SiteRun(0, "mixed", 0)})

\* the site-publication step against every answer of the host and every run
\* of the site
ProbeSite(w) == PublishSiteWith(w, PagesStatuses, VerifyStarts, SiteRuns)

\* server.py 305-348: the repository of repo_url is looked up and cloned into
\* the staging directory, then the staging
Update(w) ==
    /\ pc[w] = "update"
    /\ IF data[w].repo_url = <<>>
       THEN /\ Raise(w, HTTPException(400, "repo_url required for round 2"))
            /\ data' = [data EXCEPT ![w] = Checked(@)]
            /\ UNCHANGED <<hostCalls, base, genCalls, llmCalls, outside, git>>
       ELSE /\ hostCalls' = [hostCalls EXCEPT ![w] = @ + 1]
            /\ \E answered \in BOOLEAN, cloned \in BOOLEAN :
                  IF ~answered \/ ~RepoFound(RepoOf(w))
                  THEN /\ Raise(w, HTTPException(404, "not found"))
                       /\ data' = [data EXCEPT ![w] = Checked(@)]
                       /\ UNCHANGED <<base, genCalls, llmCalls, outside, git>>
                  ELSE IF GitRaises(cloned)
                  THEN /\ Raise(w, OtherException("CalledProcessError"))
                       /\ git' = [git EXCEPT ![w] = [@ EXCEPT !.clones = @ + 1,
                                                              !.failed = TRUE]]
                       /\ data' = [data EXCEPT ![w] = Checked(@)]
                       /\ UNCHANGED <<base, genCalls, llmCalls, outside>>
                  ELSE \E body \in Bodies, llm \in LLMOutcomes :
                       LET from == IF cloned THEN repos[RepoOf(w)]
                                   ELSE [head |-> 0, files |-> NoFiles]
                           st == Stage(from.files, data[w].round, body, llm)
                       IN  /\ base' = [base EXCEPT ![w] = from.head]
                           /\ git' = [git EXCEPT ![w] = [@ EXCEPT !.clones = @ + 1,
                                                                  !.failed = ~cloned]]
                           /\ data' = [data EXCEPT ![w] =
                                  [Checked(@) EXCEPT !.attachments = body.attachments,
                                                     !.checks = body.checks]]
                           /\ genCalls' = [genCalls EXCEPT ![w] = @ + st.gen]
                           /\ llmCalls' = [llmCalls EXCEPT ![w] = @ + st.llm]
                           /\ outside' = outside \cup st.outside
                           /\ IF st.raised THEN Raise(w, st.exc)
                              ELSE /\ tmpdir' = [tmpdir EXCEPT ![w] = st.files]
                                   /\ pc' = [pc EXCEPT ![w] = "push2"]
                                   /\ UNCHANGED <<resp, tmpdirExists>>
    /\ UNCHANGED <<nreq, existedAtStart, afterFirst, repos, checked, site, notifier, sanVars>>

\* server.py 350-359: add, commit, push of the clone
PushUpdate(w) ==
    /\ pc[w] = "push2"
    /\ data' = [data EXCEPT ![w] = Used(@)]
    /\ \E run \in GitRuns :
          LET ok == run = "ok" /\ PushAccepted(RepoOf(w), base[w])
              g == [git[w] EXCEPT !.pushes = IF run = "local" THEN @ ELSE @ + 1,
                                  !.failed = @ \/ ~ok, !.pushed = ok]
          IN  /\ git' = [git EXCEPT ![w] = g]
              /\ IF GitRaises(ok)
                 THEN /\ Raise(w, OtherException("CalledProcessError"))
                      /\ UNCHANGED repos
                 ELSE /\ repos' = IF ok
                                  THEN [repos EXCEPT ![RepoOf(w)] =
                                           [head |-> @.head + 1, files |-> tmpdir[w]]]
                                  ELSE repos
                      /\ pc' = [pc EXCEPT ![w] = "notify"]
                      /\ UNCHANGED <<resp, tmpdir, tmpdirExists>>
    /\ UNCHANGED <<nreq, base, existedAtStart, afterFirst, outside, counters, checked, site,
                   notifier, sanVars>>

NotifyStatus_Always200(ok) == 200

\* server.py 378-381: the response after the notifier returned
NotifyStatus(ok) == IF ok THEN 200 ELSE 500

\* server.py 361-387: the notification and the response; what the
\* site-publication step found is of no use past this point
Notify(w) ==
    /\ pc[w] = "notify"
    /\ site' = [site EXCEPT ![w] = NoSite]
    /\ \E r \in NotifierResults :
          /\ posts' = [posts EXCEPT ![w] = r.attempt]
          /\ oks' = [oks EXCEPT ![w] = r.oks]
          /\ okAt' = [okAt EXCEPT ![w] = r.okAt]
          /\ slept' = [slept EXCEPT ![w] = r.slept]
          /\ success' = [success EXCEPT ![w] = r.result]
          /\ Return(w, NotifyStatus(r.result = "True"),
                    IF r.result = "True" THEN "Success"
                    ELSE "Failed to notify evaluation URL")
    /\ UNCHANGED <<data, nreq, base, existedAtStart, afterFirst, repos, outside, counters,
                   checked, git, sanVars>>

Next ==
    \E w \in Workers :
        \/ Receive(w)
        \/ CheckAndStage(w)
        \/ CreateRepo(w)
        \/ PushInitial(w)
        \/ PublishSite(w)
        \/ Update(w)
        \/ PushUpdate(w)
        \/ Notify(w)

Spec == Init /\ [][Next]_vars

(***************************************************************************)
(* One round-1 request, against every answer of the site-publication       *)
(* request and every run of the published site.                            *)
(***************************************************************************)
NextSite ==
    \E w \in Workers :
        \/ ReceiveFirst(w)
        \/ CheckAndStage(w)
        \/ CreateRepo(w)
        \/ PushInitial(w)
        \/ ProbeSite(w)
        \/ Notify(w)

SpecSite == Init /\ [][NextSite]_vars

(***************************************************************************)
(* The sanitization alone: one model answer, sanitized as it is and        *)
(* wrapped in a fenced code block.                                         *)
(***************************************************************************)
InitSanitize ==
    /\ InitPipeline
    /\ modelText \in TextInputs
    /\ sanitized = <<>>

SanitizeAnswer ==
    /\ sanitized = <<>>
    /\ sanitized' = <<Sanitize(modelText), Sanitize(Wrap(modelText, FALSE)),
                      Sanitize(Wrap(modelText, TRUE))>>
    /\ UNCHANGED <<modelText, perWorker, nreq, repos, outside, counters, notifier, trail>>

NextSanitize == SanitizeAnswer

SpecSanitize == InitSanitize /\ [][NextSanitize]_vars

(***************************************************************************)
(* Properties.                                                             *)
(***************************************************************************)
Done(w) == pc[w] = "done"

\* the existence check of the request failed on the host's side
CheckFailed(w) == resp[w].detail = "host error" /\ genCalls[w] = 0

\* C1 as stated: a round-1 request that is let in after a round-1 request for
\* the same fresh (task, nonce) has returned, whatever that one's outcome, and
\* whose existence check is answered, ends with 409 and without a call of the
\* generator.
C1_RejectedWhateverTheFirstOutcome ==
    \A w \in Workers :
        (Done(w) /\ data[w].round = 1 /\ afterFirst[w]
         /\ resp[w].status # 403 /\ ~CheckFailed(w))
        => (resp[w].status = 409 /\ genCalls[w] = 0)

\* C1, amended: a round-1 request that comes in when the repository of its
\* (task, nonce) exists never calls the generator or the model, never goes past
\* the existence check, and ends with 409 unless the check itself fails.
C1_RejectedOnceRepoExists ==
    \A w \in Workers :
        (data[w].round = 1 /\ existedAtStart[w])
        => /\ genCalls[w] = 0 /\ llmCalls[w] = 0
           /\ pc[w] \in {"check", "done"}
           /\ Done(w) => (resp[w].status = 409 \/ CheckFailed(w))

C1_Witness ==
    \E w \in Workers :
        Done(w) /\ existedAtStart[w] /\ afterFirst[w] /\ resp[w].status = 409

\* C2: when no attempt is answered 200, post_with_retry has made exactly 5
\* POSTs when it returns, and it returns False.
C2_FiveAttemptsThenFalse ==
    \A w \in Workers :
        (success[w] # "none" /\ oks[w] = 0) => (posts[w] = 5 /\ success[w] = "False")

C2_Witness == \E w \in Workers : success[w] = "False" /\ posts[w] = 5 /\ oks[w] = 0

\* C3: when attempt N is the first one answered 200, post_with_retry returns
\* True, attempt N is its last, and it has slept at least 2^(N-1)-1 by then.
C3_SuccessAfterBackoff ==
    \A w \in Workers :
        okAt[w] # 0
        => /\ success[w] = "True"
           /\ posts[w] = okAt[w]
           /\ okAt[w] \in 1..5
           /\ slept[w] >= 2^(okAt[w] - 1) - 1

C3_Witness == \E w \in Workers : success[w] = "True" /\ okAt[w] = 5 /\ slept[w] = 15

\* C4: a notifier that returned False ends the request with a 500, and a 200
\* is returned only after the callback answered 200.
C4_NotificationFailureIs500 ==
    \A w \in Workers :
        /\ success[w] = "False" => (Done(w) /\ resp[w].status = 500)
        /\ resp[w].status = 200 => (success[w] = "True" /\ oks[w] >= 1)

C4_Witness ==
    \E w \in Workers :
        /\ success[w] = "False" /\ resp[w].status = 500
        /\ RepoOf(w) \in DOMAIN repos
        /\ repos[RepoOf(w)].head >= 1

\* C5 as stated: a request that returns 200 has made exactly one POST to the
\* callback.
C5_OnePostPerSuccess ==
    \A w \in Workers : resp[w].status = 200 => posts[w] = 1

\* C5, amended: a request that returns 200 has made between one and five
\* POSTs, and exactly one of them, the last, was answered 200.
C5_OneAcceptedPostPerSuccess ==
    \A w \in Workers :
        resp[w].status = 200
        => (oks[w] = 1 /\ okAt[w] = posts[w] /\ posts[w] \in 1..5)

C5_Witness == \E w \in Workers : resp[w].status = 200 /\ posts[w] = 3 /\ oks[w] = 1

\* C6: a request is past authentication only if its identity is in the
\* allow-list with the secret it submitted, and a 403 comes before any call of
\* the host, the generator or the callback.
C6_OnlyAllowedPass ==
    \A w \in Workers :
        /\ pc[w] \in {"check", "update"}
           => (data[w].email \in DOMAIN ALLOWED /\ data[w].secret = ALLOWED[data[w].email])
        /\ resp[w].status = 403
           => (hostCalls[w] = 0 /\ genCalls[w] = 0 /\ posts[w] = 0)

\* C7: the request whose create call meets the host's "already exists" error
\* ends like the pre-check failure, with 409.
C7_CreateConflictIs409 ==
    \A w \in Workers :
        (Done(w) /\ resp[w].detail = "name already exists") => resp[w].status = 409

\* C8: a push never replaces a repository's README.md by one the old README.md
\* is not a prefix of.
C8_ReadmeOnlyGrows ==
    [][\A n \in DOMAIN repos :
          "README.md" \in DOMAIN repos[n].files
          => IsPrefix(repos[n].files["README.md"], repos'[n].files["README.md"])]_vars

\* the entries the claim calls well-formed
WellFormed(e) ==
    /\ e.obj /\ e.keys = {"name", "url"}
    /\ HasMark(e.url) /\ B64Decode(SplitPayload(e.url)).ok

Generated == {"index.html", "README.md", "LICENSE"}

\* C9: once the attachments are handled, no malformed entry has left a file,
\* every well-formed entry's file holds its decoded bytes, and no request fails
\* over an attachment entry.
C9_MalformedSkipped ==
    \A w \in Workers :
        /\ resp[w].detail \notin {"AttributeError", "KeyError"}
        /\ pc[w] \in {"create", "push2"}
           => \A i \in 1..Len(data[w].attachments) :
                 LET e == data[w].attachments[i] IN
                 IF WellFormed(e)
                 THEN e.name \in Generated
                      \/ (/\ e.name \in DOMAIN tmpdir[w]
                          /\ tmpdir[w][e.name] =
                                BytesContent(B64Decode(SplitPayload(e.url)).bytes))
                 ELSE e.name \notin DOMAIN tmpdir[w]

\* C10: a model answer sanitizes to the same text with and without the fenced
\* code markers around it, with and without the html tag.
C10_FenceMakesNoDifference ==
    sanitized # <<>>
    => (sanitized[2] = sanitized[1] /\ sanitized[3] = sanitized[1])

C10_Witness ==
    /\ sanitized # <<>>
    /\ sanitized[1] # <<>>
    /\ sanitized[1] # modelText
    /\ \E i \in 1..Len(sanitized[1]) : sanitized[1][i] = Tick

\* C11: once a request has returned, whatever its response, its staging
\* directory and the files in it are gone; the directory exists exactly while
\* the request is being handled.
C11_StagingRemovedOnExit ==
    \A w \in Workers :
        /\ Done(w) => (~tmpdirExists[w] /\ tmpdir[w] = NoFiles)
        /\ tmpdirExists[w] <=> pc[w] \notin {"idle", "done"}

C11_Witness ==
    \E v, w \in Workers :
        /\ Done(v) /\ resp[v].status = 200 /\ ~tmpdirExists[v]
        /\ Done(w) /\ resp[w].status = 409 /\ ~tmpdirExists[w]

\* C12: handling the attachments writes no file at a path that is not under
\* the staging directory of the request.
C12_NoWriteOutside == outside = {}

\* C13: a round-1 request whose existence check ended with an error other
\* than "not found" has failed with a 500, and has made no call of the
\* generator or the model, no call of the host after the check, no git
\* command and no callback POST.
C13_CheckErrorFailsRequest ==
    \A w \in Workers :
        checked[w] = "error"
        => /\ Done(w) /\ resp[w].status = 500
           /\ genCalls[w] = 0 /\ llmCalls[w] = 0
           /\ hostCalls[w] = 1
           /\ git[w] = NoGit
           /\ posts[w] = 0 /\ success[w] = "none"

C13_Witness ==
    \E w \in Workers :
        /\ checked[w] = "error" /\ Done(w) /\ resp[w].status = 500
        /\ RepoOf(w) \notin DOMAIN repos

\* C14: no index.html that is empty is staged for a commit or pushed to a
\* repository: a request whose model answer is empty after sanitization ends
\* before it writes the file.
C14_NoEmptyArtifact ==
    /\ \A w \in Workers :
          pc[w] \in {"create", "push", "pages", "notify", "push2"}
          => tmpdir[w]["index.html"] # <<>>
    /\ \A n \in DOMAIN repos :
          "index.html" \in DOMAIN repos[n].files => repos[n].files["index.html"] # <<>>

\* C15: a request one of whose git commands failed has ended with a 500,
\* without a second clone or push and without a callback POST; a callback POST
\* is made, and the site-publication step reached, only by a request whose
\* push succeeded.
C15_GitFailureIsFatal ==
    \A w \in Workers :
        /\ git[w].failed
           => /\ Done(w) /\ resp[w].status = 500
              /\ ~git[w].pushed /\ git[w].pushes <= 1 /\ git[w].clones <= 1
              /\ posts[w] = 0 /\ success[w] = "none"
        /\ posts[w] > 0 => git[w].pushed
        /\ pc[w] \in {"pages", "notify"} => git[w].pushed

C15_Witness ==
    \E w \in Workers :
        /\ git[w].failed /\ git[w].pushes = 1 /\ Done(w) /\ resp[w].status = 500
        /\ data[w].round = 1 /\ RepoOf(w) \in DOMAIN repos

\* C16: the site-publication request is made only by a request whose push
\* succeeded; whatever status it is answered with, 201 and 409 and any other,
\* the request has not failed, the pushed commit is the head of the repository
\* and the request stands at the notification.
C16_PublicationStatusNotFatal ==
    \A w \in Workers :
        /\ pc[w] = "pages" => git[w].pushed
        /\ site[w].status # 0
           => /\ pc[w] = "notify" /\ resp[w].status = 0
              /\ git[w].pushed
              /\ repos[RepoOf(w)].head = 1
              /\ repos[RepoOf(w)].files = tmpdir[w]
        /\ resp[w].detail # "HTTPError"

C16_Witness ==
    \E w \in Workers :
        site[w].status \in {404, 500} /\ pc[w] = "notify" /\ git[w].pushed

\* C17: verify_pages_active makes at most 20 GETs; it returns True exactly
\* when a GET is answered 200, and that GET is its last; it returns False
\* after 20 GETs that were answered otherwise or raised; it never raises, and
\* after either result the request stands at the notification.
C17_VerificationIsAdvisory ==
    \A w \in Workers :
        /\ site[w].gets <= VerifyAttempts
        /\ site[w].verified = "True"
           => (site[w].firstOk \in 1..VerifyAttempts /\ site[w].gets = site[w].firstOk)
        /\ site[w].verified = "False"
           => (site[w].firstOk = 0 /\ site[w].gets = VerifyAttempts)
        /\ site[w].verified \in {"True", "False"}
           => (pc[w] = "notify" /\ resp[w].status = 0)
        /\ resp[w].detail # "verify raised"

C17_Witness ==
    \E w \in Workers :
        /\ site[w].verified = "False" /\ site[w].gets = VerifyAttempts
        /\ pc[w] = "notify"

\* C18: when the verification has run, the notification starts with at least
\* 60 of the 600 seconds of the budget left.
C18_TimeReservedForNotification ==
    \A w \in Workers :
        site[w].verified \in {"True", "False"}
        => site[w].elapsed <= Budget - Reserved

\* a round-1 request that has failed without reaching the create call
FailedBeforeCreate(w) ==
    Done(w) /\ data[w].round = 1 /\ resp[w].status # 200 /\ hostCalls[w] <= 1

\* C19: a round-1 request that has failed before the create call has run no
\* git command and made no callback POST, and no step of a request that
\* stands before the create call changes a repository.
C19_EarlyFailureLeavesHostUnchanged ==
    /\ [](\A w \in Workers :
             FailedBeforeCreate(w)
             => (git[w] = NoGit /\ posts[w] = 0 /\ success[w] = "none"))
    /\ [][\A w \in Workers :
             (pc[w] \in {"idle", "done", "check"} /\ pc'[w] # pc[w]) => repos' = repos]_vars

C19_Witness ==
    \E w \in Workers :
        /\ FailedBeforeCreate(w) /\ resp[w].detail = "Failed to generate code"
        /\ DOMAIN repos = {}

=============================================================================
